---- MODULE Spec2Model ----
(***************************************************************************)
(* Model of peng_ui's TextField (src/peng_ui/elements/text_field.py): the  *)
(* Line/paragraph wrapping, the cursor arithmetic, line splitting, cursor  *)
(* movement, mouse hit-testing and scrolling, driven by handle_event.      *)
(*                                                                         *)
(* A Python str is a sequence of one-character strings; a Line is its      *)
(* `paragraphs` list (a sequence of such sequences); self.text is a        *)
(* sequence of Lines.  Python indices are 0-based and are kept 0-based in  *)
(* the cursor; the Py* operators give list indexing and slicing their      *)
(* Python meaning, negative indices included.                              *)
(***************************************************************************)
EXTENDS Integers, Sequences, FiniteSets, TLC

VARIABLES text, cursor, scroll_offset, is_focused, raised, last

vars == <<text, cursor, scroll_offset, is_focused, raised, last>>

(* ------------------------------ bounds -------------------------------- *)
\* longest text the document may hold, counting its characters and one newline
\* per Line after the first: typing and RETURN stop there
MaxTextLen == 6
\* longest text handed to the constructor
MaxInitLen == 3
\* how many glyphs fit into the text area's width
WrapCols == 2
\* how many rows fit into the text area's height
VisibleRows == 2

\* the printable characters typed; "\n" only occurs in the constructor's text
Chars == {"a", " "}

(* ------------------------- Python primitives -------------------------- *)
Max(a, b) == IF a >= b THEN a ELSE b
Min(a, b) == IF a <= b THEN a ELSE b

\* list[i] raises IndexError unless -len <= i < len
PyIndexOK(s, i) == (0 - Len(s)) <= i /\ i < Len(s)

\* list[i], i as Python reads it (a negative i counts from the end)
PyGet(s, i) == IF i < 0 THEN s[Len(s) + i + 1] ELSE s[i + 1]

\* a slice bound as Python clamps it
PyBound(s, i) == IF i < 0 THEN Max(0, Len(s) + i) ELSE Min(i, Len(s))

\* s[lo:hi]
PySlice(s, lo, hi) == SubSeq(s, PyBound(s, lo) + 1, PyBound(s, hi))

\* s[:hi] and s[lo:]
PyPrefix(s, hi) == PySlice(s, 0, hi)
PySuffix(s, lo) == PySlice(s, lo, Len(s))

\* list[i] = v
PySet(s, i, v) == [s EXCEPT ![IF i < 0 THEN Len(s) + i + 1 ELSE i + 1] = v]

\* sep.join(list)
RECURSIVE PyJoin(_, _)
PyJoin(list, sep) ==
    IF list = <<>> THEN <<>>
    ELSE IF Len(list) = 1 THEN list[1]
    ELSE list[1] \o sep \o PyJoin(Tail(list), sep)

\* str.split(sep) for a one-character sep: never empty, '' gives ['']
RECURSIVE PySplitAcc(_, _, _)
PySplitAcc(s, sep, word) ==
    IF s = <<>> THEN <<word>>
    ELSE IF Head(s) = sep THEN <<word>> \o PySplitAcc(Tail(s), sep, <<>>)
    ELSE PySplitAcc(Tail(s), sep, Append(word, Head(s)))

PySplit(s, sep) == PySplitAcc(s, sep, <<>>)

\* str.find(ch, start): lowest index >= start holding ch, else -1
PyFind(s, ch, start) ==
    LET hits == {i \in 0..(Len(s) - 1) : i >= start /\ s[i + 1] = ch}
    IN  IF hits = {} THEN 0 - 1 ELSE CHOOSE i \in hits : \A j \in hits : i <= j

\* str.rfind(ch, 0, end): highest index < end holding ch, else -1
PyRFind(s, ch, end) ==
    LET hits == {i \in 0..(Len(s) - 1) : i < PyBound(s, end) /\ s[i + 1] = ch}
    IN  IF hits = {} THEN 0 - 1 ELSE CHOOSE i \in hits : \A j \in hits : i >= j

RECURSIVE SumLens(_)
SumLens(list) == IF list = <<>> THEN 0 ELSE Len(Head(list)) + SumLens(Tail(list))

(* ------------------------------ geometry ------------------------------ *)
\* self.padding
Padding == 5
\* width of one glyph as font.size reports it
GlyphWidth == 6
\* self.line_height = self.font.get_height()
line_height == 8
\* the rect handed to the constructor
rect == [x |-> 1, y |-> 1,
         width |-> 2 * Padding + WrapCols * GlyphWidth + 1,
         height |-> 2 * Padding + VisibleRows * line_height + 1]

\* font.size(s)[0]
FontSize(s) == Len(s) * GlyphWidth

\* rect.collidepoint(x, y)
collidepoint(pos) ==
    /\ rect.x <= pos[1] /\ pos[1] < rect.x + rect.width
    /\ rect.y <= pos[2] /\ pos[2] < rect.y + rect.height

\* max_width = self.rect.width - 2 * self.padding
max_width == rect.width - 2 * Padding

\* visible_lines = max(1, int(visible_height / self.line_height))
visible_lines == Max(1, (rect.height - 2 * Padding) \div line_height)

(* -------------------------------- Line -------------------------------- *)
\* Cursor(line_index, paragraph_index, char_index)
Cursor(l, p, c) == [line_index |-> l, paragraph_index |-> p, char_index |-> c]

\* Line(text).paragraphs
Line(s) == <<s>>

\* get_line_char_index without the virtual character that ends each paragraph
get_line_char_index_no_break(paragraphs, paragraph_index, char_index) ==
    SumLens(PyPrefix(paragraphs, paragraph_index)) + char_index

\* Line.get_line_char_index
get_line_char_index(paragraphs, paragraph_index, char_index) ==
    LET before == PyPrefix(paragraphs, paragraph_index)
    IN  SumLens(before) + Len(before) + char_index

\* Line.get_paragraph_char_index: <<paragraph_index, char_index>>
RECURSIVE get_paragraph_char_index_from(_, _, _, _)
get_paragraph_char_index_from(paragraphs, line_char_index, i, cum_char_sum) ==
    IF i >= Len(paragraphs) THEN <<Len(paragraphs) - 1, 0>>
    ELSE LET p_chars == Len(paragraphs[i + 1]) + 1
         IN  IF line_char_index < cum_char_sum + p_chars
             THEN <<i, line_char_index - cum_char_sum>>
             ELSE get_paragraph_char_index_from(paragraphs, line_char_index,
                                                i + 1, cum_char_sum + p_chars)

get_paragraph_char_index(paragraphs, line_char_index) ==
    get_paragraph_char_index_from(paragraphs, line_char_index, 0, 0)

\* Line.get_paragraph_char_index ends in its last line, `return
\* len(self.paragraphs) - 1, 0`: no paragraph of the loop holds the offset
RECURSIVE falls_through_from(_, _, _, _)
falls_through_from(paragraphs, line_char_index, i, cum_char_sum) ==
    IF i >= Len(paragraphs) THEN TRUE
    ELSE LET p_chars == Len(paragraphs[i + 1]) + 1
         IN  IF line_char_index < cum_char_sum + p_chars THEN FALSE
             ELSE falls_through_from(paragraphs, line_char_index,
                                     i + 1, cum_char_sum + p_chars)

get_paragraph_char_index_falls_through(paragraphs, line_char_index) ==
    falls_through_from(paragraphs, line_char_index, 0, 0)

\* the loop of Line.auto_wrap over the remaining words
RECURSIVE auto_wrap_loop(_, _, _, _)
auto_wrap_loop(words, current_line, new_paragraphs, width) ==
    IF words = <<>>
    THEN IF current_line # <<>> THEN Append(new_paragraphs, current_line)
         ELSE new_paragraphs
    ELSE LET word == Head(words)
             test_line == current_line
                          \o (IF current_line # <<>> THEN <<" ">> ELSE <<>>)
                          \o word
         IN  IF FontSize(test_line) <= width
             THEN auto_wrap_loop(Tail(words), test_line, new_paragraphs, width)
             ELSE IF current_line # <<>>
                  THEN auto_wrap_loop(Tail(words), word,
                                      Append(new_paragraphs, current_line), width)
                  ELSE auto_wrap_loop(Tail(words), <<>>,
                                      Append(new_paragraphs, word), width)

\* auto_wrap breaking before a word that fits the width exactly
RECURSIVE auto_wrap_loop_strict(_, _, _, _)
auto_wrap_loop_strict(words, current_line, new_paragraphs, width) ==
    IF words = <<>>
    THEN IF current_line # <<>> THEN Append(new_paragraphs, current_line)
         ELSE new_paragraphs
    ELSE LET word == Head(words)
             test_line == current_line
                          \o (IF current_line # <<>> THEN <<" ">> ELSE <<>>)
                          \o word
         IN  IF FontSize(test_line) < width
             THEN auto_wrap_loop_strict(Tail(words), test_line, new_paragraphs, width)
             ELSE IF current_line # <<>>
                  THEN auto_wrap_loop_strict(Tail(words), word,
                                             Append(new_paragraphs, current_line), width)
                  ELSE auto_wrap_loop_strict(Tail(words), <<>>,
                                             Append(new_paragraphs, word), width)

auto_wrap_strict(paragraphs, width) ==
    auto_wrap_loop_strict(PySplit(PyJoin(paragraphs, <<" ">>), " "), <<>>, <<>>, width)

\* auto_wrap joining the paragraphs without the space between them
auto_wrap_joined_bare(paragraphs, width) ==
    auto_wrap_loop(PySplit(PyJoin(paragraphs, <<>>), " "), <<>>, <<>>, width)

\* auto_wrap measuring the word instead of the line the word is added to
RECURSIVE auto_wrap_loop_word_width(_, _, _, _)
auto_wrap_loop_word_width(words, current_line, new_paragraphs, width) ==
    IF words = <<>>
    THEN IF current_line # <<>> THEN Append(new_paragraphs, current_line)
         ELSE new_paragraphs
    ELSE LET word == Head(words)
             test_line == current_line
                          \o (IF current_line # <<>> THEN <<" ">> ELSE <<>>)
                          \o word
         IN  IF FontSize(word) <= width
             THEN auto_wrap_loop_word_width(Tail(words), test_line, new_paragraphs, width)
             ELSE IF current_line # <<>>
                  THEN auto_wrap_loop_word_width(Tail(words), word,
                                                 Append(new_paragraphs, current_line), width)
                  ELSE auto_wrap_loop_word_width(Tail(words), <<>>,
                                                 Append(new_paragraphs, word), width)

auto_wrap_word_width(paragraphs, width) ==
    auto_wrap_loop_word_width(PySplit(PyJoin(paragraphs, <<" ">>), " "), <<>>, <<>>, width)

\* Line.auto_wrap: the new paragraphs
auto_wrap(paragraphs, width) ==
    auto_wrap_loop(PySplit(PyJoin(paragraphs, <<" ">>), " "), <<>>, <<>>, width)

\* Line.auto_wrap_and_norm_cursor: the new paragraphs and the new cursor
auto_wrap_and_norm_cursor(paragraphs, width, cur) ==
    LET line_char_index ==
            get_line_char_index(paragraphs, cur.paragraph_index, cur.char_index)
        wrapped == auto_wrap(paragraphs, width)
        pc == get_paragraph_char_index(wrapped, line_char_index)
    IN  [paragraphs |-> wrapped,
         cursor |-> Cursor(cur.line_index, pc[1], pc[2])]

\* Line.num_paragraphs
num_paragraphs(paragraphs) == Len(paragraphs)

\* Line.split: the two Lines
split(paragraphs, paragraph_index, split_index) ==
    LET middle_paragraph == PyGet(paragraphs, paragraph_index)
        left_paragraphs == Append(PyPrefix(paragraphs, paragraph_index),
                                  PyPrefix(middle_paragraph, split_index))
        right_paragraphs == <<PySuffix(middle_paragraph, split_index)>>
                            \o PySuffix(paragraphs, paragraph_index + 1)
    IN  <<Line(PyJoin(left_paragraphs, <<>>)), Line(PyJoin(right_paragraphs, <<>>))>>

(* ------------------------------ TextField ----------------------------- *)
\* the Line objects of self.text: [Line(t) for t in text.split('\n')]
InitialLines(init_text) ==
    LET parts == PySplit(init_text, "\n")
    IN  [i \in 1..Len(parts) |-> Line(parts[i])]

\* length of the text the document holds (the model's bound is on this)
TextLen(txt) == LET RECURSIVE total(_)
                    total(ls) == IF ls = <<>> THEN 0
                                 ELSE SumLens(Head(ls)) + total(Tail(ls))
                IN  total(txt) + Len(txt) - 1

\* TextField.end_cursor
end_cursor(txt) ==
    IF txt = <<>> THEN Cursor(0, 0, 0)
    ELSE LET line == txt[Len(txt)]
             line_index == Len(txt) - 1
         IN  IF line = <<>> THEN Cursor(line_index, 0, 0)
             ELSE Cursor(line_index, Len(line) - 1, Len(line[Len(line)]))

\* TextField._wrap_text: every Line wrapped, the cursor carried through its Line
wrap_text(txt, cur) ==
    [text |-> [i \in 1..Len(txt) |-> auto_wrap(txt[i], max_width)],
     cursor |-> IF cur.line_index \in 0..(Len(txt) - 1)
                THEN auto_wrap_and_norm_cursor(txt[cur.line_index + 1],
                                               max_width, cur).cursor
                ELSE cur]

\* get_view_line_pos counting the Lines before the cursor, not their paragraphs
get_view_line_pos_by_lines(txt, cur) ==
    Len(PyPrefix(txt, cur.line_index)) + cur.paragraph_index

\* TextField._get_view_line_pos
get_view_line_pos(txt, cur) ==
    LET before == PyPrefix(txt, cur.line_index)
        RECURSIVE count(_)
        count(ls) == IF ls = <<>> THEN 0
                     ELSE num_paragraphs(Head(ls)) + count(Tail(ls))
    IN  count(before) + cur.paragraph_index

\* TextField._get_num_paragraphs
get_num_paragraphs(txt) ==
    LET RECURSIVE count(_)
        count(ls) == IF ls = <<>> THEN 0
                     ELSE num_paragraphs(Head(ls)) + count(Tail(ls))
    IN  count(txt)

\* the value None
None == <<>>

\* TextField._get_line_and_paragraph_by_y: <<line_index, paragraph_index>> or None
RECURSIVE line_and_paragraph_scan(_, _, _, _)
line_and_paragraph_scan(txt, view_line_index, line_index, start_line_index) ==
    IF line_index >= Len(txt) THEN None
    ELSE LET end_line_index == start_line_index + num_paragraphs(txt[line_index + 1])
         IN  IF view_line_index < end_line_index
             THEN <<line_index, view_line_index - start_line_index>>
             ELSE line_and_paragraph_scan(txt, view_line_index,
                                          line_index + 1, end_line_index)

\* get_line_and_paragraph_by_y leaving the scroll offset out of the row
get_line_and_paragraph_by_y_unscrolled(txt, scroll, ypos) ==
    line_and_paragraph_scan(txt, ypos \div line_height, 0, 0)

get_line_and_paragraph_by_y(txt, scroll, ypos) ==
    line_and_paragraph_scan(txt, scroll + (ypos \div line_height), 0, 0)

\* self.text[l].paragraphs[p] is an element (no IndexError)
HasParagraph(txt, l, p) == PyIndexOK(txt, l) /\ PyIndexOK(PyGet(txt, l), p)

\* TextField._get_paragraph
get_paragraph(txt, l, p) == PyGet(PyGet(txt, l), p)

\* TextField._cursor_from_mouse_pos: the cursor, or raise when it ends in IndexError
cursor_from_mouse_pos(txt, scroll, mouse_pos) ==
    IF ~collidepoint(mouse_pos) THEN [raise |-> FALSE, cursor |-> end_cursor(txt)]
    ELSE IF txt = <<>> THEN [raise |-> FALSE, cursor |-> Cursor(0, 0, 0)]
    ELSE LET rel_x == mouse_pos[1] - rect.x - Padding
             rel_y == mouse_pos[2] - rect.y - Padding
             line_par == get_line_and_paragraph_by_y(txt, scroll, rel_y)
         IN  IF line_par = None THEN [raise |-> FALSE, cursor |-> end_cursor(txt)]
             ELSE IF ~HasParagraph(txt, line_par[1], line_par[2])
             THEN [raise |-> TRUE, cursor |-> Cursor(0, 0, 0)]
             ELSE LET paragraph == get_paragraph(txt, line_par[1], line_par[2])
                      wider == {n \in 0..Len(paragraph) :
                                    FontSize(PyPrefix(paragraph, n)) > rel_x}
                      num_chars == IF wider = {} THEN Len(paragraph)
                                   ELSE CHOOSE n \in wider : \A m \in wider : n <= m
                  IN  [raise |-> FALSE,
                       cursor |-> Cursor(line_par[1], line_par[2], num_chars)]

\* _next_char_index stepping forward whatever the direction
next_char_index_forward(paragraph, char_index, direction, jump_words) ==
    IF ~jump_words THEN char_index + 1
    ELSE IF char_index = Len(paragraph) THEN Len(paragraph) + 1
    ELSE LET new_index == PyFind(paragraph, " ", char_index + 1)
         IN  IF new_index = 0 - 1 THEN Len(paragraph) ELSE new_index

\* TextField._next_char_index
next_char_index(paragraph, char_index, direction, jump_words) ==
    IF ~jump_words THEN char_index + direction
    ELSE IF direction > 0
    THEN IF char_index = Len(paragraph) THEN Len(paragraph) + 1
         ELSE LET new_index == PyFind(paragraph, " ", char_index + 1)
              IN  IF new_index = 0 - 1 THEN Len(paragraph) ELSE new_index
    ELSE IF char_index = 0 THEN 0 - 1
         ELSE LET new_index == PyRFind(paragraph, " ", char_index)
              IN  IF new_index = 0 - 1 THEN 0 ELSE new_index

\* off_document with the upper limit off by one
off_document_past_end(txt, new_line_index) ==
    new_line_index < 0 \/ new_line_index > Len(txt)

\* TextField._move_cursor, the test that ends the move at the document's extremities
off_document(txt, new_line_index) == new_line_index < 0 \/ new_line_index >= Len(txt)

\* TextField._move_cursor: the moved cursor, or raise when it ends in IndexError
move_cursor(txt, cur, direction, jump_words) ==
    IF jump_words THEN [raise |-> FALSE, cursor |-> cur]
    ELSE IF ~HasParagraph(txt, cur.line_index, cur.paragraph_index)
    THEN [raise |-> TRUE, cursor |-> cur]
    ELSE
    LET paragraph == get_paragraph(txt, cur.line_index, cur.paragraph_index)
        stepped_char == next_char_index(paragraph, cur.char_index, direction, jump_words)
        wrap_back == stepped_char < 0
        wrap_forward == stepped_char > Len(paragraph)
        overflow == wrap_back \/ wrap_forward
        stepped_paragraph == cur.paragraph_index + direction
        current_line == PyGet(txt, cur.line_index)
        leaves_line == overflow /\ (stepped_paragraph < 0
                                    \/ stepped_paragraph >= num_paragraphs(current_line))
        new_line_index == IF leaves_line THEN cur.line_index + direction
                          ELSE cur.line_index
        stops == leaves_line /\ off_document(txt, new_line_index)
        from_previous == IF stepped_paragraph < 0
                         THEN num_paragraphs(txt[new_line_index + 1]) - 1
                         ELSE stepped_paragraph
        new_paragraph_index ==
            IF ~overflow THEN cur.paragraph_index
            ELSE IF ~leaves_line THEN stepped_paragraph
            ELSE IF from_previous >= num_paragraphs(current_line) THEN 0
            ELSE from_previous
    IN  IF stops THEN [raise |-> FALSE, cursor |-> cur]
        ELSE IF wrap_forward
        THEN [raise |-> FALSE, cursor |-> Cursor(new_line_index, new_paragraph_index, 0)]
        ELSE IF wrap_back
        THEN IF ~HasParagraph(txt, new_line_index, new_paragraph_index)
             THEN [raise |-> TRUE, cursor |-> cur]
             ELSE [raise |-> FALSE,
                   cursor |-> Cursor(new_line_index, new_paragraph_index,
                                     Len(get_paragraph(txt, new_line_index,
                                                       new_paragraph_index)))]
        ELSE [raise |-> FALSE,
              cursor |-> Cursor(new_line_index, new_paragraph_index, stepped_char)]

\* TextField._clamp_scroll
clamp_scroll(txt, scroll) ==
    LET max_scroll == Max(0, get_num_paragraphs(txt) - visible_lines)
    IN  Max(0, Min(scroll, max_scroll))

\* TextField._update_scroll
update_scroll(txt, cur, scroll) ==
    LET cursor_line == get_view_line_pos(txt, cur)
        down == IF cursor_line >= scroll + visible_lines
                THEN cursor_line - visible_lines + 1 ELSE scroll
        up == IF cursor_line < down THEN cursor_line ELSE down
    IN  clamp_scroll(txt, up)

\* create_newline inserting the right Line at line_index instead of line_index + 1
create_newline_right_first(txt, cur) ==
    IF ~HasParagraph(txt, cur.line_index, cur.paragraph_index)
    THEN [raise |-> TRUE, text |-> txt]
    ELSE LET line_index == cur.line_index
             halves == split(PyGet(txt, line_index), cur.paragraph_index, cur.char_index)
             replaced == PySet(txt, line_index, halves[1])
         IN  [raise |-> FALSE,
              text |-> PyPrefix(replaced, line_index) \o <<halves[2]>>
                       \o PySuffix(replaced, line_index)]

\* TextField._create_newline: the new self.text, or raise on IndexError
create_newline(txt, cur) ==
    IF ~HasParagraph(txt, cur.line_index, cur.paragraph_index)
    THEN [raise |-> TRUE, text |-> txt]
    ELSE LET line_index == cur.line_index
             halves == split(PyGet(txt, line_index), cur.paragraph_index, cur.char_index)
             replaced == PySet(txt, line_index, halves[1])
         IN  [raise |-> FALSE,
              text |-> PyPrefix(replaced, line_index + 1) \o <<halves[2]>>
                       \o PySuffix(replaced, line_index + 1)]

\* TextField._insert_text: the new text, cursor and scroll offset, or raise
insert_text(txt, cur, scroll, char) ==
    IF ~HasParagraph(txt, cur.line_index, cur.paragraph_index)
    THEN [raise |-> TRUE, text |-> txt, cursor |-> cur, scroll_offset |-> scroll]
    ELSE LET old == get_paragraph(txt, cur.line_index, cur.paragraph_index)
             paragraph == PyPrefix(old, cur.char_index) \o <<char>>
                          \o PySuffix(old, cur.char_index)
             line == PySet(PyGet(txt, cur.line_index), cur.paragraph_index, paragraph)
             spliced == PySet(txt, cur.line_index, line)
             wrapped == wrap_text(spliced, cur)
             moved == [wrapped.cursor EXCEPT !.char_index = @ + 1]
         IN  [raise |-> FALSE, text |-> wrapped.text, cursor |-> moved,
              scroll_offset |-> update_scroll(wrapped.text, moved, scroll)]

(* ------------------------- the state machine -------------------------- *)
\* texts the constructor is given
InitTexts == UNION {[1..n -> Chars \cup {"\n"}] : n \in 0..MaxInitLen}

\* positions a mouse event carries: the left and top padding, and the first and
\* the last glyph column and row of the text area
MouseXs == {rect.x, rect.x + Padding, rect.x + Padding + (WrapCols - 1) * GlyphWidth}
MouseYs == {rect.y, rect.y + Padding, rect.y + Padding + (VisibleRows - 1) * line_height}
MousePoints == MouseXs \X MouseYs
\* a position outside the rect
Outside == <<rect.x - 1, rect.y>>

\* what the last handled event was, and the cursor a key event found
Event(op, direction, jump_words, char, cur) ==
    [op |-> op, direction |-> direction, jump_words |-> jump_words, char |-> char,
     cursor |-> cur]

\* the cursor recorded for events that are not key events
NoCursor == Cursor(0 - 1, 0 - 1, 0 - 1)

\* TextField.__init__
Init ==
    /\ \E t \in InitTexts :
        /\ text = InitialLines(t)
        /\ cursor = end_cursor(InitialLines(t))
    /\ last = Event("init", 0, FALSE, "", NoCursor)
    /\ scroll_offset = 0
    /\ is_focused = FALSE
    /\ raised = FALSE

\* handle_event: MOUSEBUTTONDOWN, button 1
MouseButtonDown(pos, is_hovered) ==
    /\ ~raised
    /\ last' = Event("mouse_down", 0, FALSE, "", NoCursor)
    /\ IF is_hovered
       THEN LET hit == cursor_from_mouse_pos(text, scroll_offset, pos)
            IN  /\ is_focused' = TRUE
                /\ raised' = hit.raise
                /\ cursor' = IF hit.raise THEN cursor ELSE hit.cursor
       ELSE /\ is_focused' = FALSE
            /\ UNCHANGED <<cursor, raised>>
    /\ UNCHANGED <<text, scroll_offset>>

\* handle_event: MOUSEWHEEL while hovered
MouseWheel(y) ==
    /\ ~raised
    /\ last' = Event("wheel", y, FALSE, "", NoCursor)
    /\ scroll_offset' = clamp_scroll(text, Max(0, scroll_offset - y))
    /\ UNCHANGED <<text, cursor, is_focused, raised>>

\* handle_event: KEYDOWN K_RETURN while focused
KeyReturn ==
    /\ ~raised
    /\ is_focused
    /\ TextLen(text) < MaxTextLen
    /\ last' = Event("newline", 0, FALSE, "", cursor)
    /\ LET r == create_newline(text, cursor)
       IN  /\ raised' = r.raise
           /\ text' = r.text
    /\ UNCHANGED <<cursor, scroll_offset, is_focused>>

\* handle_event: KEYDOWN K_LEFT / K_RIGHT while focused (_move_my_cursor)
KeyArrow(direction, ctrl_pressed) ==
    /\ ~raised
    /\ is_focused
    /\ last' = Event("move", direction, ctrl_pressed, "", cursor)
    /\ LET m == move_cursor(text, cursor, direction, ctrl_pressed)
       IN  /\ raised' = m.raise
           /\ cursor' = m.cursor
           /\ scroll_offset' = IF m.raise THEN scroll_offset
                               ELSE update_scroll(text, m.cursor, scroll_offset)
    /\ UNCHANGED <<text, is_focused>>

\* handle_event: KEYDOWN of a printable character while focused
KeyPrintable(char) ==
    /\ ~raised
    /\ is_focused
    /\ TextLen(text) < MaxTextLen
    /\ last' = Event("insert", 0, FALSE, char, cursor)
    /\ LET r == insert_text(text, cursor, scroll_offset, char)
       IN  /\ raised' = r.raise
           /\ text' = r.text
           /\ cursor' = r.cursor
           /\ scroll_offset' = r.scroll_offset
    /\ UNCHANGED is_focused

Next ==
    \/ \E pos \in MousePoints \cup {Outside} : MouseButtonDown(pos, TRUE)
    \/ MouseButtonDown(Outside, FALSE)
    \/ \E y \in {0 - 1, 1} : MouseWheel(y)
    \/ KeyReturn
    \/ \E direction \in {0 - 1, 1}, ctrl_pressed \in BOOLEAN :
           KeyArrow(direction, ctrl_pressed)
    \/ \E char \in Chars : KeyPrintable(char)

Spec == Init /\ [][Next]_vars

\* The field constructed and then focused by a click that leaves the cursor at the
\* document's end (MouseButtonDown(Outside, TRUE)), driven by key events alone.
KeyInit ==
    /\ \E t \in InitTexts :
        /\ text = InitialLines(t)
        /\ cursor = end_cursor(InitialLines(t))
    /\ last = Event("mouse_down", 0, FALSE, "", NoCursor)
    /\ scroll_offset = 0
    /\ is_focused = TRUE
    /\ raised = FALSE

KeyNext ==
    \/ KeyReturn
    \/ \E direction \in {0 - 1, 1}, ctrl_pressed \in BOOLEAN :
           KeyArrow(direction, ctrl_pressed)
    \/ \E char \in Chars : KeyPrintable(char)

KeySpec == KeyInit /\ [][KeyNext]_vars


(* ------------- the Line's and the field's functions, applied ---------- *)
\* longest text of a Line the functions are applied to, one character counted
\* for each break between two of its paragraphs
MaxLineLen == 4
\* most Lines, and most paragraphs of a Line, in the documents of several Lines
MaxDocLines == 2
MaxDocParagraphs == 2

\* the paragraph lists of a Line: every way of writing a text over Chars in
\* paragraphs ("\n" stands for the break between two paragraphs), and the list
\* without paragraphs that auto_wrap leaves
LineInputs ==
    {PySplit(t, "\n") : t \in UNION {[1..n -> Chars \cup {"\n"}] : n \in 0..MaxLineLen}}
        \cup {<<>>}

\* a wrapped Line of k one-word paragraphs
WrappedLine(k) == [i \in 1..k |-> <<"a">>]

\* documents of several Lines of different paragraph counts
DocInputs ==
    UNION {[1..n -> {WrappedLine(k) : k \in 0..MaxDocParagraphs}] : n \in 1..MaxDocLines}

\* self.text: one Line of any paragraphs, or a document of wrapped Lines
FnTexts == {<<paragraphs>> : paragraphs \in LineInputs} \cup DocInputs

\* the cursors that point into txt, and the cursor the field gives itself
CursorsOf(txt) ==
    {end_cursor(txt)}
        \cup UNION {UNION {{Cursor(l, p, c) : c \in 0..Len(txt[l + 1][p + 1])}
                              : p \in 0..(Len(txt[l + 1]) - 1)}
                       : l \in 0..(Len(txt) - 1)}

\* the max_width values auto_wrap is called with: negative, zero, and one glyph
\* up to one glyph more than the text area is wide
WrapWidths == {0 - 1, 0} \cup {k * GlyphWidth : k \in 1..(WrapCols + 1)}

\* the line_char_index values get_paragraph_char_index is called with
LineCharIndices == 0..(MaxLineLen + 1)

\* the ypos values _get_line_and_paragraph_by_y is called with: the top padding,
\* the first pixel, and the last pixel of each row down to below the last row
YPositions ==
    {0 - Padding, 0}
        \cup {row * line_height + line_height - 1
                  : row \in 0..(MaxDocLines * MaxDocParagraphs)}

\* what the last applied function was: its argument, the paragraphs and the
\* cursor it found, and what it returned
Applied(op, arg, paragraphs, cur, result) ==
    [op |-> op, arg |-> arg, paragraphs |-> paragraphs, cursor |-> cur,
     result |-> result]

\* a field holding one of the texts, its cursor in the text, scrolled within
\* the limits _clamp_scroll keeps
FnInit ==
    /\ text \in FnTexts
    /\ cursor \in CursorsOf(text)
    /\ scroll_offset \in 0..Max(0, get_num_paragraphs(text) - visible_lines)
    /\ last = Applied("init", 0, <<>>, NoCursor, None)
    /\ is_focused = FALSE
    /\ raised = FALSE

\* line.auto_wrap(font, max_width) on the cursor's Line
AutoWrap(width) ==
    /\ PyIndexOK(text, cursor.line_index)
    /\ LET paragraphs == PyGet(text, cursor.line_index)
       IN  /\ text' = PySet(text, cursor.line_index, auto_wrap(paragraphs, width))
           /\ last' = Applied("auto_wrap", width, paragraphs, cursor, None)
    /\ UNCHANGED <<cursor, scroll_offset, is_focused, raised>>

\* self.cursor = line.auto_wrap_and_norm_cursor(font, max_width, self.cursor)
AutoWrapAndNormCursor(width) ==
    /\ PyIndexOK(text, cursor.line_index)
    /\ LET paragraphs == PyGet(text, cursor.line_index)
           r == auto_wrap_and_norm_cursor(paragraphs, width, cursor)
       IN  /\ text' = PySet(text, cursor.line_index, r.paragraphs)
           /\ cursor' = r.cursor
           /\ last' = Applied("auto_wrap_and_norm_cursor", width, paragraphs,
                              cursor, None)
    /\ UNCHANGED <<scroll_offset, is_focused, raised>>

\* line.get_line_char_index(cursor.paragraph_index, cursor.char_index)
GetLineCharIndex ==
    /\ PyIndexOK(text, cursor.line_index)
    /\ LET paragraphs == PyGet(text, cursor.line_index)
       IN  last' = Applied("get_line_char_index", 0, paragraphs, cursor,
                           get_line_char_index(paragraphs, cursor.paragraph_index,
                                               cursor.char_index))
    /\ UNCHANGED <<text, cursor, scroll_offset, is_focused, raised>>

\* line.get_paragraph_char_index(line_char_index)
GetParagraphCharIndex(line_char_index) ==
    /\ PyIndexOK(text, cursor.line_index)
    /\ LET paragraphs == PyGet(text, cursor.line_index)
       IN  last' = Applied("get_paragraph_char_index", line_char_index, paragraphs,
                           cursor,
                           get_paragraph_char_index(paragraphs, line_char_index))
    /\ UNCHANGED <<text, cursor, scroll_offset, is_focused, raised>>

\* self._get_view_line_pos(self.cursor)
GetViewLinePos ==
    /\ last' = Applied("get_view_line_pos", 0, <<>>, cursor,
                       get_view_line_pos(text, cursor))
    /\ UNCHANGED <<text, cursor, scroll_offset, is_focused, raised>>

\* self._get_line_and_paragraph_by_y(ypos)
GetLineAndParagraphByY(ypos) ==
    /\ last' = Applied("get_line_and_paragraph_by_y", ypos, <<>>, cursor,
                       get_line_and_paragraph_by_y(text, scroll_offset, ypos))
    /\ UNCHANGED <<text, cursor, scroll_offset, is_focused, raised>>

FnNext ==
    \/ \E width \in WrapWidths : AutoWrap(width)
    \/ \E width \in WrapWidths : AutoWrapAndNormCursor(width)
    \/ GetLineCharIndex
    \/ \E line_char_index \in LineCharIndices : GetParagraphCharIndex(line_char_index)
    \/ GetViewLinePos
    \/ \E ypos \in YPositions : GetLineAndParagraphByY(ypos)

FnSpec == FnInit /\ [][FnNext]_vars

(* ------------------------------ the claims ---------------------------- *)
\* a cursor that points into the document as the data model requires
CursorValid(txt, cur) ==
    /\ cur.line_index \in 0..(Len(txt) - 1)
    /\ cur.paragraph_index \in 0..(Len(txt[cur.line_index + 1]) - 1)
    /\ cur.char_index
         \in 0..Len(txt[cur.line_index + 1][cur.paragraph_index + 1])

\* a Line's text: its paragraphs joined by single spaces
RawText(paragraphs) == PyJoin(paragraphs, <<" ">>)

\* the number of words of a paragraph
NumWords(paragraph) ==
    LET words == PySplit(paragraph, " ")
    IN  Cardinality({k \in 1..Len(words) : words[k] # <<>>})

\* the cursor's flattened offset in its Line
FlatOffset(txt, cur) ==
    get_line_char_index(txt[cur.line_index + 1], cur.paragraph_index, cur.char_index)

\* the cursor stands at the end of the last paragraph of its Line
AtLineEnd(txt, cur) ==
    /\ CursorValid(txt, cur)
    /\ cur.paragraph_index = Len(txt[cur.line_index + 1]) - 1
    /\ cur.char_index = Len(txt[cur.line_index + 1][cur.paragraph_index + 1])

\* the last handled event was a character-wise move in the given direction
CharMove(direction) ==
    last.op = "move" /\ ~last.jump_words /\ last.direction = direction

\* C1: in every reachable state the cursor is valid: its line_index names a
\* Line, its paragraph_index a paragraph of that Line, and its char_index lies
\* between 0 and that paragraph's length.
C1_CursorValid == CursorValid(text, cursor)

\* C2: in every reachable state every Line of the Document has at least one
\* paragraph.
C2_LinesNonEmpty == \A i \in 1..Len(text) : Len(text[i]) >= 1

\* C3: no insert-character, split-line or cursor-move ever raises an error.
C3_NoOperationRaises == ~raised

\* C4: inserting a character at a valid cursor with flattened offset o leaves
\* the cursor at paragraph_and_char(o + 1) of the Line's post-wrap layout
\* (stated for the insertions whose re-wrap keeps the Line's text).
C4_InsertCursorOnePast ==
    [][((\E char \in Chars : KeyPrintable(char))
           /\ CursorValid(text, cursor) /\ ~raised'
           /\ LET raw == RawText(text[cursor.line_index + 1])
                  o == FlatOffset(text, cursor)
              IN  RawText(text'[cursor.line_index + 1])
                    = PyPrefix(raw, o) \o <<last'.char>> \o PySuffix(raw, o))
       => LET l == cursor.line_index
              pc == get_paragraph_char_index(text'[l + 1], FlatOffset(text, cursor) + 1)
          IN  cursor' = Cursor(l, pc[1], pc[2])]_vars

\* C5: split_line at a valid cursor gives a left Line whose text is the prefix,
\* and a right Line whose text is the remainder, of the Line's text (paragraphs
\* joined by single spaces) cut at the cursor's flattened offset.
C5_SplitRawText ==
    [][(KeyReturn /\ CursorValid(text, cursor) /\ ~raised')
       => LET l == cursor.line_index
              raw == RawText(text[l + 1])
              o == FlatOffset(text, cursor)
          IN  /\ RawText(text'[l + 1]) = PyPrefix(raw, o)
              /\ RawText(text'[l + 2]) = PySuffix(raw, o)]_vars

\* C6: after split_line with the cursor in Line i the cursor is (i + 1, 0, 0).
C6_SplitMovesCursor ==
    (last.op = "newline" /\ ~raised)
        => cursor = Cursor(last.cursor.line_index + 1, 0, 0)

\* C7: split_line with the cursor in Line i puts the left Line at index i and
\* the right Line at index i + 1; the number of Lines grows by exactly one and
\* every other Line keeps its content and its relative order.
C7_SplitReplacesInPlace ==
    [][(KeyReturn /\ ~raised')
       => LET i == cursor.line_index
              halves == split(text[i + 1], cursor.paragraph_index, cursor.char_index)
          IN  /\ Len(text') = Len(text) + 1
              /\ text'[i + 1] = halves[1]
              /\ text'[i + 2] = halves[2]
              /\ \A j \in 1..Len(text) :
                    /\ j < i + 1 => text'[j] = text[j]
                    /\ j > i + 1 => text'[j + 1] = text[j]]_vars

\* a split has acted inside the text of a Line that has a Line before it and a
\* Line after it
C7_Witness ==
    /\ last.op = "newline" /\ ~raised
    /\ last.cursor.line_index >= 1
    /\ Len(text) >= last.cursor.line_index + 3
    /\ RawText(text[last.cursor.line_index + 1]) # <<>>
    /\ RawText(text[last.cursor.line_index + 2]) # <<>>

\* C8: after split_line both resulting Lines are in wrapped form: each equals
\* the wrap of its own text at the current width, so no paragraph holding more
\* than one word is wider than max_width (stated for the Lines whose text the
\* wrap keeps).
C8_SplitLinesWrapped ==
    (last.op = "newline" /\ ~raised)
        => \A j \in {last.cursor.line_index + 1, last.cursor.line_index + 2} :
              /\ (/\ RawText(text[j]) # <<>>
                  /\ RawText(auto_wrap(text[j], max_width)) = RawText(text[j]))
                    => text[j] = auto_wrap(text[j], max_width)
              /\ \A k \in 1..Len(text[j]) :
                    NumWords(text[j][k]) > 1 => FontSize(text[j][k]) <= max_width

\* C9: a character-wise move left from the valid cursor (0, 0, 0), or right
\* from the end of the last paragraph of the last Line, completes and leaves
\* the cursor unchanged.
C9_MoveAtExtremities ==
    (\/ CharMove(0 - 1) /\ last.cursor = Cursor(0, 0, 0) /\ CursorValid(text, last.cursor)
     \/ CharMove(1) /\ AtLineEnd(text, last.cursor)
            /\ last.cursor.line_index = Len(text) - 1)
        => (~raised /\ cursor = last.cursor)

\* a move right has been made from the end of a document whose last Line is
\* wrapped into several paragraphs
C9_Witness ==
    /\ CharMove(1) /\ AtLineEnd(text, last.cursor)
    /\ last.cursor.line_index = Len(text) - 1
    /\ Len(text) >= 2
    /\ Len(text[Len(text)]) >= 2

\* C10: a character-wise move left from the start (l, 0, 0) of a Line l > 0
\* lands at the end of the last paragraph of Line l - 1, and a move right from
\* the end of the last paragraph of a Line l that is not the last lands at
\* (l + 1, 0, 0), whatever the paragraph counts of the two Lines.
C10_CrossLineLanding ==
    LET l == last.cursor.line_index
    IN  /\ (/\ CharMove(0 - 1) /\ ~raised /\ CursorValid(text, last.cursor)
            /\ last.cursor.paragraph_index = 0 /\ last.cursor.char_index = 0
            /\ l > 0 /\ Len(text[l]) >= 1)
               => cursor = Cursor(l - 1, Len(text[l]) - 1, Len(text[l][Len(text[l])]))
        /\ (CharMove(1) /\ ~raised /\ AtLineEnd(text, last.cursor) /\ l < Len(text) - 1)
               => cursor = Cursor(l + 1, 0, 0)

\* the last handled event was a word-wise move (ctrl held)
WordMove == last.op = "move" /\ last.jump_words

\* C11: a word-wise move from a valid cursor puts the cursor on the word-jump
\* target of its paragraph (forward the next space after char_index or the
\* paragraph's end, backward the last space before char_index or 0); when the
\* target overflows the paragraph, the move ends as the character-wise move in
\* the same direction does.
C11_WordWiseMove ==
    (WordMove /\ CursorValid(text, last.cursor))
        => LET cur == last.cursor
               paragraph == text[cur.line_index + 1][cur.paragraph_index + 1]
               target == next_char_index(paragraph, cur.char_index, last.direction, TRUE)
               char_wise == move_cursor(text, cur, last.direction, FALSE)
           IN  IF target \in 0..Len(paragraph)
               THEN ~raised /\ cursor = Cursor(cur.line_index, cur.paragraph_index, target)
               ELSE raised = char_wise.raise
                    /\ (~char_wise.raise => cursor = char_wise.cursor)

\* C17: after every insert-character, split-line, cursor-move and scroll-wheel
\* operation 0 <= scroll_offset <= max(0, total_rows - visible_rows).
C17_ScrollClamped ==
    (last.op \in {"insert", "newline", "move", "wheel"} /\ ~raised)
        => /\ 0 <= scroll_offset
           /\ scroll_offset <= Max(0, get_num_paragraphs(text) - visible_lines)

\* a wrap was the last function applied
WrapApplied == last.op \in {"auto_wrap", "auto_wrap_and_norm_cursor"}

\* the paragraphs the last applied function left in the Line it found
ResultLine == PyGet(text, last.cursor.line_index)

\* the words of a text that are not empty, in order
NonEmptyWords(s) == SelectSeq(PySplit(s, " "), LAMBDA w : w # <<>>)

\* the rows of the Lines before Line l, counted paragraph by paragraph
RowsBefore(txt, l) ==
    Cardinality(UNION {{<<i, k>> : k \in 1..Len(txt[i])} : i \in 1..l})

\* C12: wrapping an already wrapped Line again at the same positive width
\* reproduces exactly the same paragraph list, whatever the Line held (empty,
\* leading, trailing or consecutive spaces included).
C12_WrapIdempotent ==
    (WrapApplied /\ last.arg > 0) => auto_wrap(ResultLine, last.arg) = ResultLine

\* a wrap has broken a Line with leading, trailing or consecutive spaces into
\* several paragraphs
C12_Witness ==
    /\ WrapApplied /\ last.arg > 0
    /\ Len(ResultLine) >= 2
    /\ Len(NonEmptyWords(RawText(last.paragraphs)))
         < Len(PySplit(RawText(last.paragraphs), " "))

\* C13: every paragraph a wrap produces is at most max_width wide or holds a
\* single word; the words of the Line all reappear whole and in order, so an
\* over-wide word stands alone and is not subdivided.
C13_NoOverflow ==
    WrapApplied
        => /\ \A k \in 1..Len(ResultLine) :
                 \/ FontSize(ResultLine[k]) <= last.arg
                 \/ NumWords(ResultLine[k]) <= 1 /\ PyFind(ResultLine[k], " ", 0) = 0 - 1
           /\ NonEmptyWords(RawText(ResultLine)) = NonEmptyWords(RawText(last.paragraphs))

\* a wrap at a positive width has emitted a word wider than the width between
\* other paragraphs
C13_Witness ==
    /\ WrapApplied /\ last.arg > 0
    /\ Len(ResultLine) >= 2
    /\ \E k \in 1..Len(ResultLine) : FontSize(ResultLine[k]) > last.arg

\* C14: the wrap, at a positive width, of a Line that has a paragraph never
\* returns an empty paragraph sequence, and the wrap of an empty Line (no
\* words) is exactly one empty paragraph.
C14_WrapEmptyLine ==
    (WrapApplied /\ last.arg > 0 /\ Len(last.paragraphs) >= 1)
        => /\ ResultLine # <<>>
           /\ NonEmptyWords(RawText(last.paragraphs)) = <<>> => ResultLine = <<<<>>>>

\* C15: for a Line with at least one paragraph and a valid (paragraph_index,
\* char_index), get_paragraph_char_index of the flattened offset
\* get_line_char_index(paragraph_index, char_index) is (paragraph_index,
\* char_index) again.
C15_OffsetRoundTrip ==
    (/\ last.op = "get_paragraph_char_index"
     /\ CursorValid(text, cursor)
     /\ last.arg = get_line_char_index(text[cursor.line_index + 1],
                                       cursor.paragraph_index, cursor.char_index))
        => last.result = <<cursor.paragraph_index, cursor.char_index>>

\* the offset of the end of a paragraph that is neither the first nor the last
\* of its Line has been taken back to its paragraph
C15_Witness ==
    /\ last.op = "get_paragraph_char_index"
    /\ CursorValid(text, cursor)
    /\ last.arg = get_line_char_index(text[cursor.line_index + 1],
                                      cursor.paragraph_index, cursor.char_index)
    /\ cursor.paragraph_index >= 1
    /\ cursor.paragraph_index < Len(text[cursor.line_index + 1]) - 1
    /\ cursor.char_index = Len(text[cursor.line_index + 1][cursor.paragraph_index + 1])
    /\ cursor.char_index >= 1

\* C16: auto_wrap_and_norm_cursor at a positive width, given a cursor valid in
\* the Line, returns a cursor that is valid in the wrapped Line, has the same
\* flattened offset there as the given cursor had before, and stands before
\* the same character of the Line's text.
C16_CursorCarriedThrough ==
    (/\ last.op = "auto_wrap_and_norm_cursor" /\ last.arg > 0
     /\ CursorValid(PySet(text, last.cursor.line_index, last.paragraphs), last.cursor))
        => LET o == get_line_char_index(last.paragraphs, last.cursor.paragraph_index,
                                        last.cursor.char_index)
           IN  /\ CursorValid(text, cursor)
               /\ FlatOffset(text, cursor) = o
               /\ PySlice(RawText(ResultLine), o, o + 1)
                    = PySlice(RawText(last.paragraphs), o, o + 1)

\* C18: _get_view_line_pos of a valid cursor is the number of paragraphs of the
\* Lines before the cursor's Line plus its paragraph_index, and no valid cursor
\* further on in (line_index, paragraph_index) order has a smaller view row.
C18_ViewRow ==
    (last.op = "get_view_line_pos" /\ CursorValid(text, cursor))
        => /\ last.result = RowsBefore(text, cursor.line_index) + cursor.paragraph_index
           /\ \A later \in CursorsOf(text) :
                 (/\ CursorValid(text, later)
                  /\ \/ later.line_index > cursor.line_index
                     \/ /\ later.line_index = cursor.line_index
                        /\ later.paragraph_index >= cursor.paragraph_index)
                    => get_view_line_pos(text, later) >= last.result

\* the view row has been taken of a cursor in a later paragraph of a Line that
\* follows a Line of several paragraphs
C18_Witness ==
    /\ last.op = "get_view_line_pos" /\ CursorValid(text, cursor)
    /\ cursor.line_index >= 1 /\ cursor.paragraph_index >= 1
    /\ \E i \in 1..cursor.line_index : Len(text[i]) >= 2

\* C19: looking up the view row of a valid cursor returns the cursor's
\* (line_index, paragraph_index), and looking up a row >= total_rows returns
\* out-of-range.
C19_RowLookupInvertsViewRow ==
    last.op = "get_line_and_paragraph_by_y"
        => LET target_row == scroll_offset + (last.arg \div line_height)
           IN  /\ (CursorValid(text, cursor)
                     /\ target_row = get_view_line_pos(text, cursor))
                    => last.result = <<cursor.line_index, cursor.paragraph_index>>
               /\ target_row >= get_num_paragraphs(text) => last.result = None

\* in a scrolled document the row of a cursor in a later paragraph of a later
\* Line has been looked up
C19_Witness ==
    /\ last.op = "get_line_and_paragraph_by_y"
    /\ CursorValid(text, cursor)
    /\ scroll_offset + (last.arg \div line_height) = get_view_line_pos(text, cursor)
    /\ scroll_offset >= 1
    /\ cursor.line_index >= 1 /\ cursor.paragraph_index >= 1
    /\ last.result # None

\* C20: a wrap with max_width <= 0 is not attempted: the paragraphs of the Line
\* (here a Line that holds words) are left as they were.
C20_NonPositiveWidthRejected ==
    (WrapApplied /\ last.arg <= 0 /\ NonEmptyWords(RawText(last.paragraphs)) # <<>>)
        => ResultLine = last.paragraphs

\* a printable key is handled
Insertion == \E char \in Chars : KeyPrintable(char)

\* C21: inserting ch at a valid cursor with flattened offset o leaves the edited
\* Line's text (paragraphs joined by single spaces) equal to its text before
\* with ch spliced in at o, and ch is the character just before the new cursor.
C21_InsertKeepsText ==
    [][(Insertion /\ CursorValid(text, cursor) /\ ~raised')
       => LET l == cursor.line_index
              raw == RawText(text[l + 1])
              o == FlatOffset(text, cursor)
              after == get_line_char_index(PyGet(text', cursor'.line_index),
                                           cursor'.paragraph_index, cursor'.char_index)
          IN  /\ RawText(text'[l + 1]) = PyPrefix(raw, o) \o <<last'.char>> \o PySuffix(raw, o)
              /\ cursor'.line_index = l
              /\ after >= 1
              /\ PySlice(RawText(text'[l + 1]), after - 1, after) = <<last'.char>>]_vars

\* C24: an insertion leaves the paragraph lists of all Lines other than the
\* cursor's Line as they were, never-wrapped Lines included.
C24_InsertWrapsOnlyEditedLine ==
    [][(Insertion /\ ~raised')
       => /\ Len(text') = Len(text)
          /\ \A j \in 1..Len(text) : j # cursor.line_index + 1 => text'[j] = text[j]]_vars

\* C25: on every insertion the call of get_paragraph_char_index that carries
\* the cursor through the re-wrap receives an offset inside the wrapped Line
\* and returns from inside its loop: the fallback is never taken.
C25_FallbackNeverTaken ==
    [][(Insertion /\ ~raised')
       => LET line_char_index ==
                  get_line_char_index(PyGet(text, cursor.line_index),
                                      cursor.paragraph_index, cursor.char_index)
          IN  ~get_paragraph_char_index_falls_through(PyGet(text', cursor.line_index),
                                                      line_char_index)]_vars

\* the cursor stands where a move in the given direction has nowhere to go: at
\* the document's start for -1, at its end for 1
AtExtremity(txt, cur, direction) ==
    IF direction < 0 THEN cur = Cursor(0, 0, 0)
    ELSE AtLineEnd(txt, cur) /\ cur.line_index = Len(txt) - 1

\* the last handled event was a character-wise move from a valid cursor that
\* had a position to go to inside the cursor's Line: inside its paragraph, or
\* in the neighbouring paragraph of the Line
MoveInsideLine ==
    /\ last.op = "move" /\ ~last.jump_words
    /\ CursorValid(text, last.cursor)
    /\ LET cur == last.cursor
           line == text[cur.line_index + 1]
       IN  \/ cur.char_index + last.direction
                 \in 0..Len(line[cur.paragraph_index + 1])
           \/ cur.paragraph_index + last.direction \in 0..(Len(line) - 1)

\* C22: a character-wise move that stays inside the cursor's Line (a step
\* inside the paragraph or across the break between two paragraphs of the
\* Line) keeps the line_index and changes the cursor's flattened offset in the
\* Line by exactly the direction.
C22_MoveStepsOneOffset ==
    MoveInsideLine
        => /\ ~raised
           /\ cursor.line_index = last.cursor.line_index
           /\ FlatOffset(text, cursor) = FlatOffset(text, last.cursor) + last.direction

\* a move left has crossed the break between two paragraphs of a Line
C22_Witness ==
    /\ MoveInsideLine /\ last.direction = 0 - 1 /\ ~raised
    /\ last.cursor.char_index = 0
    /\ last.cursor.paragraph_index >= 1
    /\ cursor.paragraph_index = last.cursor.paragraph_index - 1

\* C23: in a document whose Lines all have a paragraph, a character-wise move
\* in one direction from a valid cursor that is not at the document's extremity
\* in that direction, followed by the move in the other direction, restores the
\* cursor.
C23_LeftRightInverse ==
    [][\A direction \in {0 - 1, 1} :
          (/\ CharMove(direction)
           /\ C2_LinesNonEmpty
           /\ CursorValid(text, last.cursor)
           /\ ~AtExtremity(text, last.cursor, direction)
           /\ KeyArrow(0 - direction, FALSE))
             => (~raised' /\ cursor' = last.cursor)]_vars

\* C26: after every keyboard cursor move and every insertion the cursor's row
\* is inside the visible window.
C26_CursorRowVisible ==
    (last.op \in {"move", "insert"} /\ ~raised)
        => /\ scroll_offset <= get_view_line_pos(text, cursor)
           /\ get_view_line_pos(text, cursor) < scroll_offset + visible_lines

\* every Line has a paragraph and the scroll offset is within its clamp bounds
WellFormedView ==
    /\ C2_LinesNonEmpty
    /\ 0 <= scroll_offset
    /\ scroll_offset <= Max(0, get_num_paragraphs(text) - visible_lines)

\* C27: a click on any point inside the rect, the top and the left padding
\* included, at a scroll offset within its clamp bounds, completes and gives a
\* valid cursor; a point on a row beyond the last row gives the end-of-document
\* cursor.
C27_HitTestCursorValid ==
    [][\A pos \in MousePoints :
          (WellFormedView /\ collidepoint(pos) /\ MouseButtonDown(pos, TRUE))
             => /\ ~raised'
                /\ CursorValid(text', cursor')
                /\ (scroll_offset + ((pos[2] - rect.y - Padding) \div line_height)
                        >= get_num_paragraphs(text))
                     => cursor' = end_cursor(text)]_vars

\* the first word of a paragraph
FirstWord(paragraph) == Head(PySplit(paragraph, " "))

\* C28: for every two consecutive paragraphs P and Q that a wrap at a positive
\* width produces, P + one space + the first word of Q is wider than max_width.
C28_GreedyMaximal ==
    (WrapApplied /\ last.arg > 0)
        => \A k \in 1..(Len(ResultLine) - 1) :
              FontSize(ResultLine[k] \o <<" ">> \o FirstWord(ResultLine[k + 1])) > last.arg

\* a wrap has filled a paragraph to exactly the width and broken the Line
\* before the next word
C28_Witness ==
    /\ WrapApplied /\ last.arg > 0
    /\ Len(ResultLine) >= 2
    /\ FontSize(ResultLine[1]) = last.arg
    /\ FirstWord(ResultLine[2]) # <<>>

====
